---------------------------- MODULE Spec2Model ----------------------------
(***************************************************************************)
(* Type attributes of the game-object C# generator (src/unnamed/part_001,  *)
(* final revision, lines 134-318): two attribute kinds, their two          *)
(* JSON-Schema attribute producers, the two renderer hooks and main.       *)
(*                                                                         *)
(* The type-graph engine and the base C# renderer are quicktype-core, an   *)
(* external library; the parts of it the program plugs into (attach,       *)
(* lookup, combine-on-merge, the base declarations) are modelled from the  *)
(* interface the specification gives for them.                             *)
(***************************************************************************)
EXTENDS Integers, Sequences, FiniteSets, TLC

VARIABLES
    pc,        \* position of main: start, build, produce, attached, merge,
               \* print, failed, exited
    argc,      \* args.length
    cur,       \* the schema fragment whose producers are running (or NoFrag)
    nodes,     \* the type graph: sequence of type nodes with their attributes
    merged,    \* the engine's last merge: inputs, both combine calls, result
    lines,     \* what quicktype() returned
    printed,   \* number of lines already written by console.log
    stdout,    \* output stream
    stderr,    \* error stream
    error,     \* the pending exception (message parts), <<>> when none
    exitCode   \* process status, -1 while running

vars == <<pc, argc, cur, nodes, merged, lines, printed, stdout, stderr, error, exitCode>>

(***************************************************************************)
(* Bounds                                                                  *)
(***************************************************************************)
MaxFrags == 3      \* schema fragments in the document
MaxArgs == 2       \* command-line arguments tried: 0 .. MaxArgs

(***************************************************************************)
(* JavaScript / JSON values.  `ref' is the identity of a heap value        *)
(* (arrays, objects); it is 0 for primitives.                              *)
(***************************************************************************)
JSVal(t, n, s, ref) == [t |-> t, n |-> n, s |-> s, ref |-> ref]

Undefined == JSVal("undefined", 0, "", 0)
Null == JSVal("null", 0, "", 0)
Bool(b) == JSVal("boolean", IF b THEN 1 ELSE 0, "", 0)
Num(n) == JSVal("number", n, "", 0)
Str(s) == JSVal("string", 0, s, 0)
Arr(n) == JSVal("array", n, "", 0)      \* the one-element array [n], not yet allocated

IsHeap(v) == v.t \in {"array", "object"}

\* typeof
TypeOf(v) ==
    CASE v.t = "undefined" -> "undefined"
      [] v.t = "boolean" -> "boolean"
      [] v.t = "number" -> "number"
      [] v.t = "string" -> "string"
      [] OTHER -> "object"

\* ===
StrictEq(a, b) ==
    /\ a.t = b.t
    /\ CASE a.t \in {"undefined", "null"} -> TRUE
         [] a.t \in {"boolean", "number"} -> a.n = b.n
         [] a.t = "string" -> a.s = b.s
         [] OTHER -> a.ref = b.ref

\* truthiness of a value in a conditional
Truthy(v) ==
    CASE v.t \in {"undefined", "null"} -> FALSE
      [] v.t = "boolean" -> v.n = 1
      [] v.t = "number" -> v.n # 0
      [] v.t = "string" -> v.s # ""
      [] OTHER -> TRUE

\* JSON.stringify for the values a schema can hold
JSONstringify(v) ==
    CASE v.t = "null" -> "null"
      [] v.t = "boolean" -> (IF v.n = 1 THEN "true" ELSE "false")
      [] v.t = "number" -> ToString(v.n)
      [] v.t = "string" -> "\"" \o v.s \o "\""
      [] v.t = "array" -> "[" \o ToString(v.n) \o "]"
      [] OTHER -> "undefined"

\* JSON.parse allocates every array anew: the value read in fragment `id'
Parsed(v, id) == IF IsHeap(v) THEN JSVal(v.t, v.n, v.s, id) ELSE v


(***************************************************************************)
(* Schema fragments.  A JSON Schema is an object or a boolean literal.     *)
(***************************************************************************)
TypeTags == {"object", "string"}

GameObjectValues == {Undefined, Bool(TRUE), Bool(FALSE), Str("yes"), Num(1), Null}
DefaultValues == {Undefined, Num(100), Num(7), Num(0), Null, Str(""), Arr(1)}

\* canonical reference of the i-th fragment of the document: the root, then
\* the root's properties
CanonicalRef(i) ==
    CASE i = 1 -> "#"
      [] i = 2 -> "#/properties/health"
      [] OTHER -> "#/properties/p" \o ToString(i)

\* JSON name of the property the i-th fragment describes
JsonName(i) == IF i = 2 THEN "health" ELSE "p" \o ToString(i)

Fragment(id, structured, types, gameObject, default) ==
    [id |-> id, structured |-> structured, types |-> types,
     gameObject |-> gameObject, default |-> default, ref |-> CanonicalRef(id)]

NoFrag == [id |-> 0, structured |-> FALSE, types |-> {},
           gameObject |-> Undefined, default |-> Undefined, ref |-> ""]

\* the fragments the parser can hand to the producers as fragment `id'
Fragments(id) ==
    {Fragment(id, FALSE, ty, Undefined, Undefined) : ty \in SUBSET TypeTags}
    \cup {Fragment(id, TRUE, ty, g, Parsed(d, id)) :
            ty \in SUBSET TypeTags, g \in GameObjectValues, d \in DefaultValues}

(***************************************************************************)
(* Attribute kinds.  An attribute map entry of one kind is a sequence of   *)
(* length 0 (no entry) or 1 (the stored value).  A call that can throw     *)
(* returns [threw, msg, value].                                            *)
(***************************************************************************)
Returned(v) == [threw |-> FALSE, msg |-> <<>>, value |-> v]
Thrown(m) == [threw |-> TRUE, msg |-> m, value |-> Undefined]

\* a combine that needs every constituent to be a game object
GameObjectCombineEvery(attrs) ==
    Returned(Bool(\A i \in DOMAIN attrs : Truthy(attrs[i])))

\* GameObjectTypeAttributeKind.combine: attrs.some(x => x)
GameObjectCombine(attrs) ==
    Returned(Bool(\E i \in DOMAIN attrs : Truthy(attrs[i])))

\* a makeInferred that keeps the value
MakeInferredKeep(v) == <<v>>

\* GameObjectTypeAttributeKind.makeInferred: undefined
GameObjectMakeInferred(v) == <<>>

\* DefaultValueTypeAttributeKind.combine
DefaultValueCombine(attrs) ==
    IF \E i \in 2..Len(attrs) : ~StrictEq(attrs[1], attrs[i])
    THEN Thrown(<<"Inconsistent default values">>)
    ELSE Returned(attrs[1])

\* DefaultValueTypeAttributeKind.makeInferred: undefined
DefaultValueMakeInferred(v) == <<>>

\* TypeAttributeKind.makeAttributes: a map with the one entry kind -> value
makeAttributes(v) == <<v>>

\* TypeAttributeKind.tryGetInAttributes: the stored value, or undefined
tryGetInAttributes(entry) == IF entry = <<>> THEN Undefined ELSE entry[1]

(***************************************************************************)
(* Attribute producers.  The result is [threw, msg, forType]: forType is   *)
(* <<>> when the producer returns undefined.                               *)
(***************************************************************************)
Produced(entry) == [threw |-> FALSE, msg |-> <<>>, forType |-> entry]
ProducerThrew(m) == [threw |-> TRUE, msg |-> m, forType |-> <<>>]

\* a producer that treats a non-boolean flag as "not a game object"
gameObjectAttributeProducerLenient(schema, canonicalRef, types) ==
    IF ~schema.structured THEN Produced(<<>>)
    ELSE IF "object" \notin types THEN Produced(<<>>)
    ELSE Produced(makeAttributes(Bool(schema.gameObject = Bool(TRUE))))

\* a producer that leaves the attribute out when the key is missing
gameObjectAttributeProducerSparse(schema, canonicalRef, types) ==
    IF ~schema.structured THEN Produced(<<>>)
    ELSE IF "object" \notin types THEN Produced(<<>>)
    ELSE IF StrictEq(schema.gameObject, Undefined) THEN Produced(<<>>)
    ELSE IF TypeOf(schema.gameObject) = "boolean"
         THEN Produced(makeAttributes(schema.gameObject))
    ELSE ProducerThrew(<<"gameObject is not a boolean in ", canonicalRef>>)

gameObjectAttributeProducer(schema, canonicalRef, types) ==
    IF ~schema.structured THEN Produced(<<>>)                 \* typeof schema !== "object"
    ELSE IF "object" \notin types THEN Produced(<<>>)         \* !types.has("object")
    ELSE IF StrictEq(schema.gameObject, Undefined)
         THEN Produced(makeAttributes(Bool(FALSE)))
    ELSE IF TypeOf(schema.gameObject) = "boolean"
         THEN Produced(makeAttributes(schema.gameObject))
    ELSE ProducerThrew(<<"gameObject is not a boolean in ", canonicalRef>>)

\* `typeof schema.default === undefined' compares the string typeof yields
\* with the value undefined
propertyDefaultsAttributeProducer(schema) ==
    IF ~schema.structured THEN Produced(<<>>)                 \* typeof schema !== "object"
    ELSE IF StrictEq(Str(TypeOf(schema.default)), Undefined) THEN Produced(<<>>)
    ELSE Produced(makeAttributes(schema.default))

(***************************************************************************)
(* Type nodes.  gameObject and propertyDefaults are the node's attribute   *)
(* entries of the two kinds.  uses, built, structured, object, declared    *)
(* and goSrc record where the node came from: the fragments it stands for, *)
(* whether it was built straight from one fragment, that fragment's shape, *)
(* whether it had a "default" key, and the marker contributions that were  *)
(* combined into the node, in the order they were combined.                *)
(***************************************************************************)
DeadNode ==
    [alive |-> FALSE, isClass |-> FALSE, gameObject |-> <<>>, propertyDefaults |-> <<>>,
     uses |-> {}, built |-> FALSE, structured |-> FALSE, object |-> FALSE,
     declared |-> FALSE, goSrc |-> <<>>]

\* attach: the node the engine builds for a fragment, with what the
\* producers contributed for it
BuiltNode(f, go, dv) ==
    [alive |-> TRUE, isClass |-> f.structured /\ "object" \in f.types,
     gameObject |-> go, propertyDefaults |-> dv,
     uses |-> {f.id}, built |-> TRUE, structured |-> f.structured,
     object |-> "object" \in f.types,
     declared |-> f.structured /\ f.default # Undefined, goSrc |-> go]

RECURSIVE Flatten(_)
Flatten(ss) == IF ss = <<>> THEN <<>> ELSE Head(ss) \o Flatten(Tail(ss))

GameObjectEntries(ins) == Flatten([i \in 1..Len(ins) |-> ins[i].gameObject])
DefaultEntries(ins) == Flatten([i \in 1..Len(ins) |-> ins[i].propertyDefaults])

\* combine-on-merge of one kind over n nodes, of which those in vals carry
\* it: r is the combined value (combine is called for two or more values),
\* inferred is what makeInferred makes of it
MergeKind(vals, n, r, inferred) ==
    IF vals = <<>> THEN [threw |-> FALSE, msg |-> <<>>, entry |-> <<>>]
    ELSE IF r.threw THEN [threw |-> TRUE, msg |-> r.msg, entry |-> <<>>]
    ELSE [threw |-> FALSE, msg |-> <<>>,
          entry |-> IF Len(vals) < n THEN inferred ELSE <<r.value>>]

MergeGameObject(ins) ==
    LET vals == GameObjectEntries(ins)
        r == IF Len(vals) >= 2 THEN GameObjectCombine(vals)
             ELSE Returned(tryGetInAttributes(vals))
    IN  MergeKind(vals, Len(ins), r, GameObjectMakeInferred(r.value))

MergeDefault(ins) ==
    LET vals == DefaultEntries(ins)
        r == IF Len(vals) >= 2 THEN DefaultValueCombine(vals)
             ELSE Returned(tryGetInAttributes(vals))
    IN  MergeKind(vals, Len(ins), r, DefaultValueMakeInferred(r.value))

MergedNode(ins) ==
    [alive |-> TRUE, isClass |-> \A i \in DOMAIN ins : ins[i].isClass,
     gameObject |-> MergeGameObject(ins).entry,
     propertyDefaults |-> MergeDefault(ins).entry,
     uses |-> UNION {ins[i].uses : i \in DOMAIN ins},
     built |-> FALSE, structured |-> FALSE, object |-> FALSE, declared |-> FALSE,
     goSrc |-> Flatten([i \in 1..Len(ins) |-> ins[i].goSrc])]

NoMerge == [ins |-> <<>>, dvArgs |-> <<>>, threw |-> FALSE, out |-> 0]

(***************************************************************************)
(* Renderer hooks.  A Sourcelike is a sequence of strings (nested arrays   *)
(* are emitted in order, so they are kept flat); <<>> as the result of     *)
(* superclassForType is undefined, "no superclass".                        *)
(***************************************************************************)
\* the first revision's hook: every class is a game object
superclassForTypeAlways(t) == IF t.isClass THEN <<"GameObject">> ELSE <<>>

superclassForType(t) ==
    IF ~t.isClass THEN <<>>
    ELSE LET isGameObject == tryGetInAttributes(t.gameObject)
         IN  IF Truthy(isGameObject) THEN <<"GameObject">> ELSE <<>>

\* CSharpRenderer.propertyDefinition: the base declaration of a property
BasePropertyDefinition(jsonName) == <<"public object ", jsonName, " { get; set; }">>

\* a hook that tests the value's truthiness instead of its presence
propertyDefinitionTruthy(p, jsonName) ==
    LET originalDefinition == BasePropertyDefinition(jsonName)
        v == tryGetInAttributes(p.propertyDefaults)
    IN  IF ~Truthy(v) THEN originalDefinition
        ELSE originalDefinition \o <<" = ", JSONstringify(v), ";">>

\* a hook that replaces the declaration by the initializer
propertyDefinitionReplace(p, jsonName) ==
    LET originalDefinition == BasePropertyDefinition(jsonName)
        v == tryGetInAttributes(p.propertyDefaults)
    IN  IF StrictEq(v, Undefined) THEN originalDefinition
        ELSE <<jsonName, " = ", JSONstringify(v), ";">>

\* p is the property's type node
propertyDefinition(p, jsonName) ==
    LET originalDefinition == BasePropertyDefinition(jsonName)
        v == tryGetInAttributes(p.propertyDefaults)
    IN  IF StrictEq(v, Undefined) THEN originalDefinition
        ELSE originalDefinition \o <<" = ", JSONstringify(v), ";">>

\* CSharpRenderer: the class declaration line of class node i
ClassLine(i, t) ==
    LET super == superclassForType(t)
    IN  [kind |-> "class", node |-> i, name |-> "",
         text |-> <<"public partial class ", "C" \o ToString(i)>>
                  \o (IF super = <<>> THEN <<>> ELSE <<" : ">> \o super)]

PropertyLine(i, t, u) ==
    [kind |-> "property", node |-> i, name |-> JsonName(u),
     text |-> propertyDefinition(t, JsonName(u))]

RECURSIVE PropertyLines(_, _, _)
PropertyLines(i, t, us) ==
    IF us = {} THEN <<>>
    ELSE LET u == CHOOSE x \in us : \A y \in us : x <= y
         IN  <<PropertyLine(i, t, u)>> \o PropertyLines(i, t, us \ {u})

\* the lines of node i: its class declaration when it is a class, and the
\* declaration of every property of the root whose type it is
NodeLines(i, t) ==
    IF ~t.alive THEN <<>>
    ELSE (IF t.isClass THEN <<ClassLine(i, t)>> ELSE <<>>)
         \o PropertyLines(i, t, t.uses \ {1})

\* quicktype({ lang, inputData }).lines
RenderLines(ns) == Flatten([i \in 1..Len(ns) |-> NodeLines(i, ns[i])])

(***************************************************************************)
(* main                                                                    *)
(***************************************************************************)
Init ==
    /\ pc = "start"
    /\ argc \in 0..MaxArgs
    /\ cur = NoFrag
    /\ nodes = <<>>
    /\ merged = NoMerge
    /\ lines = <<>>
    /\ printed = 0
    /\ stdout = <<>>
    /\ stderr = <<>>
    /\ error = <<>>
    /\ exitCode = -1

\* if (args.length !== 1) { console.error(usage); process.exit(1); }
Usage ==
    /\ pc = "start"
    /\ argc # 1
    /\ stderr' = Append(stderr, <<"Usage: ", "program", " SCHEMA">>)
    /\ exitCode' = 1
    /\ pc' = "exited"
    /\ UNCHANGED <<argc, cur, nodes, merged, lines, printed, stdout, error>>

\* readFileSync, addSource with the two producers
AddSource ==
    /\ pc = "start"
    /\ argc = 1
    /\ pc' = "build"
    /\ UNCHANGED <<argc, cur, nodes, merged, lines, printed, stdout, stderr, error, exitCode>>

\* the engine reaches the next fragment of the document
ReadFragment ==
    /\ pc = "build"
    /\ Len(nodes) < MaxFrags
    /\ \E f \in Fragments(Len(nodes) + 1) : cur' = f
    /\ pc' = "produce"
    /\ UNCHANGED <<argc, nodes, merged, lines, printed, stdout, stderr, error, exitCode>>

\* the engine runs producers = [gameObjectAttributeProducer,
\* propertyDefaultsAttributeProducer] on the fragment and attaches what they
\* contribute to the node it builds; a throw leaves main's await
RunProducers ==
    /\ pc = "produce"
    /\ LET go == gameObjectAttributeProducer(cur, cur.ref, cur.types)
           dv == propertyDefaultsAttributeProducer(cur)
       IN  IF go.threw
           THEN /\ error' = go.msg
                /\ pc' = "failed"
                /\ UNCHANGED nodes
           ELSE /\ nodes' = Append(nodes, BuiltNode(cur, go.forType, dv.forType))
                /\ pc' = "attached"
                /\ UNCHANGED error
    /\ UNCHANGED <<argc, cur, merged, lines, printed, stdout, stderr, exitCode>>

\* the engine goes on with the document
NextFragment ==
    /\ pc = "attached"
    /\ cur' = NoFrag
    /\ pc' = "build"
    /\ UNCHANGED <<argc, nodes, merged, lines, printed, stdout, stderr, error, exitCode>>

\* the document is read: graph construction ends, simplification starts
EndBuild ==
    /\ pc = "build"
    /\ Len(nodes) >= 1
    /\ pc' = "merge"
    /\ UNCHANGED <<argc, cur, nodes, merged, lines, printed, stdout, stderr, error, exitCode>>

Alive == {i \in DOMAIN nodes : nodes[i].alive}

\* the orders in which two or more distinct nodes can be unified
MergeOrders ==
    {s \in UNION {[1..k -> Alive] : k \in 2..Cardinality(Alive)} :
        \A i, j \in DOMAIN s : i # j => s[i] # s[j]}

\* the engine unifies the nodes s[1], s[2], ... into one node, calling each
\* kind's combine / makeInferred; a throw of combine leaves main's await
Merge ==
    /\ pc = "merge"
    /\ \E s \in MergeOrders :
       LET ins == [i \in 1..Len(s) |-> nodes[s[i]]]
           dv == MergeDefault(ins)
           args == IF Len(DefaultEntries(ins)) >= 2 THEN DefaultEntries(ins) ELSE <<>>
       IN  IF dv.threw
           THEN /\ error' = dv.msg
                /\ pc' = "failed"
                /\ merged' = [ins |-> ins, dvArgs |-> args, threw |-> TRUE, out |-> 0]
                /\ UNCHANGED nodes
           ELSE /\ nodes' = [i \in DOMAIN nodes |->
                               IF i = s[1] THEN MergedNode(ins)
                               ELSE IF \E j \in DOMAIN s : s[j] = i THEN DeadNode
                               ELSE nodes[i]]
                /\ merged' = [ins |-> ins, dvArgs |-> args, threw |-> FALSE, out |-> s[1]]
                /\ UNCHANGED <<error, pc>>
    /\ UNCHANGED <<argc, cur, lines, printed, stdout, stderr, exitCode>>

\* const { lines } = await quicktype({ lang, inputData })
Quicktype ==
    /\ pc = "merge"
    /\ lines' = RenderLines(nodes)
    /\ pc' = "print"
    /\ UNCHANGED <<argc, cur, nodes, merged, printed, stdout, stderr, error, exitCode>>

\* for (const line of lines) console.log(line)
PrintLine ==
    /\ pc = "print"
    /\ printed < Len(lines)
    /\ stdout' = Append(stdout, lines[printed + 1])
    /\ printed' = printed + 1
    /\ UNCHANGED <<pc, argc, cur, nodes, merged, lines, stderr, error, exitCode>>

\* main's promise resolves
Exit ==
    /\ pc = "print"
    /\ printed = Len(lines)
    /\ exitCode' = 0
    /\ pc' = "exited"
    /\ UNCHANGED <<argc, cur, nodes, merged, lines, printed, stdout, stderr, error>>

\* .catch(e => { console.error(e); process.exit(1); })
CatchError ==
    /\ pc = "failed"
    /\ stderr' = Append(stderr, error)
    /\ exitCode' = 1
    /\ pc' = "exited"
    /\ UNCHANGED <<argc, cur, nodes, merged, lines, printed, stdout, error>>

Next ==
    \/ Usage
    \/ AddSource
    \/ ReadFragment
    \/ RunProducers
    \/ NextFragment
    \/ EndBuild
    \/ Merge
    \/ Quicktype
    \/ PrintLine
    \/ Exit
    \/ CatchError

Spec == Init /\ [][Next]_vars

(***************************************************************************)
(* Properties                                                              *)
(***************************************************************************)
\* structural equality of two JSON values
DeepEq(a, b) == a.t = b.t /\ a.n = b.n /\ a.s = b.s

Rendered == pc = "print" \/ (pc = "exited" /\ exitCode = 0)

AnyTrue(bs) == \E k \in DOMAIN bs : bs[k] = Bool(TRUE)

\* C1: the marker of a node that still carries it is true exactly when at
\* least one of the contributions combined into it, in whatever order and
\* grouping the merges took them, is true; combine over the whole sequence of
\* contributions and combine over the combine results of any two-part
\* grouping of it give that same value.
C1_CombineIsOr ==
    \A i \in DOMAIN nodes :
        (nodes[i].alive /\ nodes[i].gameObject # <<>>) =>
            LET src == nodes[i].goSrc
                b == nodes[i].gameObject[1]
            IN  /\ src # <<>>
                /\ b = Bool(AnyTrue(src))
                /\ GameObjectCombine(src).value = b
                /\ \A k \in 1..(Len(src) - 1) :
                      GameObjectCombine(
                          <<GameObjectCombine(SubSeq(src, 1, k)).value,
                            GameObjectCombine(SubSeq(src, k + 1, Len(src))).value>>).value = b

\* a node merged in two steps out of three contributions, not all equal
C1_Witness ==
    /\ merged.out # 0
    /\ Len(merged.ins) = 2
    /\ \E k \in DOMAIN merged.ins : ~merged.ins[k].built
    /\ nodes[merged.out].gameObject = <<Bool(TRUE)>>
    /\ Len(nodes[merged.out].goSrc) = 3
    /\ \E k \in 1..3 : nodes[merged.out].goSrc[k] = Bool(FALSE)

\* C2: the default kind's combine fails exactly when some value is not
\* deeply equal to the first.
C2_CombineDeepEquality ==
    merged.dvArgs # <<>> =>
        (merged.threw <=>
            \E k \in DOMAIN merged.dvArgs : ~DeepEq(merged.dvArgs[1], merged.dvArgs[k]))

\* C3: the node built from a fragment gets a default contribution exactly
\* when the fragment is structured and has a "default" key, and then the
\* contribution is the declared value.
C3_DefaultProducedIffDeclared ==
    pc = "attached" =>
        LET n == nodes[Len(nodes)]
        IN  /\ n.propertyDefaults # <<>> <=> (cur.structured /\ cur.default # Undefined)
            /\ n.propertyDefaults # <<>> => n.propertyDefaults = <<cur.default>>

\* C4: the marker contribution of a fragment: none for a boolean-literal
\* schema or a fragment not tagged "object"; otherwise true when "gameObject"
\* is true and the explicit value false when it is false or missing; the
\* class node built from the fragment looks the marker up accordingly.
C4_MarkerProduced ==
    pc = "attached" =>
        LET n == nodes[Len(nodes)]
            lookup == tryGetInAttributes(n.gameObject)
        IN  /\ Len(n.gameObject) <= 1
            /\ (~cur.structured \/ "object" \notin cur.types) => n.gameObject = <<>>
            /\ (cur.structured /\ "object" \in cur.types) =>
                  /\ n.isClass
                  /\ cur.gameObject = Bool(TRUE) => lookup = Bool(TRUE)
                  /\ cur.gameObject \in {Bool(FALSE), Undefined} =>
                        (n.gameObject = <<Bool(FALSE)>> /\ lookup = Bool(FALSE))
                  /\ cur.gameObject \in {Bool(TRUE), Bool(FALSE), Undefined}

\* an object fragment without the key got the explicit value false
C4_Witness ==
    /\ pc = "attached"
    /\ cur.structured /\ "object" \in cur.types /\ cur.gameObject = Undefined
    /\ nodes[Len(nodes)].gameObject = <<Bool(FALSE)>>

\* an object-typed structured fragment whose "gameObject" is present and not
\* a boolean
BadGameObject(f) ==
    /\ f.structured
    /\ "object" \in f.types
    /\ f.gameObject # Undefined
    /\ TypeOf(f.gameObject) # "boolean"

\* C5: once the producers have run on such a fragment the run has failed
\* with the error naming the fragment's canonical reference, no line has been
\* rendered or printed, the failed run can only go on to exit, and it has
\* exited with status 1 after logging the error.
C5_NonBooleanFails ==
    (BadGameObject(cur) /\ pc # "produce") =>
        /\ pc \in {"failed", "exited"}
        /\ error = <<"gameObject is not a boolean in ", cur.ref>>
        /\ lines = <<>>
        /\ stdout = <<>>
        /\ pc = "failed" => (exitCode = -1 /\ ENABLED CatchError /\ ~ENABLED Quicktype)
        /\ pc = "exited" => (exitCode = 1 /\ stderr = <<error>>)

\* the third fragment of the document made the run exit with status 1
C5_Witness ==
    /\ BadGameObject(cur)
    /\ cur.id = 3
    /\ cur.gameObject = Str("yes")
    /\ pc = "exited"
    /\ exitCode = 1

\* C6: the supertype hook gives "GameObject" exactly for a class node whose
\* marker is present and true, and no override for every other node; the
\* rendered class declaration carries the supertype in exactly that case.
C6_SuperclassIffMarked ==
    Rendered =>
        \A i \in DOMAIN nodes :
            nodes[i].alive =>
                LET marked == nodes[i].isClass /\ nodes[i].gameObject = <<Bool(TRUE)>>
                    decl == <<"public partial class ", "C" \o ToString(i)>>
                IN  /\ superclassForType(nodes[i]) =
                          (IF marked THEN <<"GameObject">> ELSE <<>>)
                    /\ nodes[i].isClass =>
                          \E k \in DOMAIN lines :
                              /\ lines[k].kind = "class"
                              /\ lines[k].node = i
                              /\ lines[k].text =
                                    (IF marked THEN decl \o <<" : ", "GameObject">> ELSE decl)
                    /\ ~nodes[i].isClass =>
                          ~\E k \in DOMAIN lines : lines[k].kind = "class" /\ lines[k].node = i

\* rendered: a marked class, an unmarked class and a node without the marker
C6_Witness ==
    /\ Rendered
    /\ \E i, j, k \in DOMAIN nodes :
          /\ nodes[i].isClass /\ nodes[i].gameObject = <<Bool(TRUE)>>
          /\ nodes[j].isClass /\ nodes[j].gameObject = <<Bool(FALSE)>>
          /\ nodes[k].alive /\ nodes[k].gameObject = <<>>

\* C7 (state part): every rendered property declaration starts with the base
\* declaration; it is exactly the base declaration when the type node has no
\* default value, and otherwise the base declaration followed only by the
\* initializer " = <serialized value>;".
C7_Additive ==
    Rendered =>
        \A k \in DOMAIN lines :
            lines[k].kind = "property" =>
                LET base == BasePropertyDefinition(lines[k].name)
                    v == tryGetInAttributes(nodes[lines[k].node].propertyDefaults)
                    text == lines[k].text
                IN  /\ Len(text) >= Len(base)
                    /\ SubSeq(text, 1, Len(base)) = base
                    /\ v = Undefined => text = base
                    /\ v # Undefined => text = base \o <<" = ", JSONstringify(v), ";">>
                    /\ v = Null => text = base \o <<" = ", "null", ";">>
                    /\ v = Num(0) => text = base \o <<" = ", "0", ";">>

\* C7: the property-initializer hook is purely additive (the state part
\* above) and rendering changes no node and no attribute.
C7_AdditiveNoAttributeChange ==
    /\ []C7_Additive
    /\ [][pc' = "print" => nodes' = nodes]_vars

\* a property whose default is null was rendered with the initializer
C7_Witness ==
    /\ Rendered
    /\ \E k \in DOMAIN lines :
          /\ lines[k].kind = "property"
          /\ nodes[lines[k].node].propertyDefaults = <<Null>>
          /\ lines[k].text = BasePropertyDefinition(lines[k].name) \o <<" = ", "null", ";">>

\* the last merge unified a node built from an object fragment with
\* "gameObject": true with a node built from a non-object fragment
MarkedWithNonObject ==
    /\ merged.out # 0
    /\ \E a, b \in DOMAIN merged.ins :
          /\ merged.ins[a].built /\ merged.ins[a].structured /\ merged.ins[a].object
          /\ merged.ins[a].gameObject = <<Bool(TRUE)>>
          /\ merged.ins[b].built /\ ~merged.ins[b].object
          /\ merged.ins[b].gameObject = <<>>

\* C8: the node merged out of a marked object node and a non-object node has
\* no marker, and the supertype hook gives no override for it.
C8_InferredDropsMarker ==
    MarkedWithNonObject =>
        /\ nodes[merged.out].gameObject = <<>>
        /\ tryGetInAttributes(nodes[merged.out].gameObject) = Undefined
        /\ superclassForType(nodes[merged.out]) = <<>>

C8_Witness ==
    /\ MarkedWithNonObject
    /\ Len(merged.ins) = 2
    /\ nodes[merged.out].alive

\* the document of C9: the root is an object with "gameObject": true, the
\* health property declares "default": 100, every other property declares no
\* default; no types are unified
GameSchema ==
    /\ merged = NoMerge
    /\ Len(nodes) >= 3
    /\ \A i \in DOMAIN nodes : nodes[i].built /\ nodes[i].structured
    /\ nodes[1].object /\ nodes[1].gameObject = <<Bool(TRUE)>>
    /\ nodes[2].declared /\ nodes[2].propertyDefaults = <<Num(100)>>
    /\ \A i \in 3..Len(nodes) : ~nodes[i].declared

\* C9: for that document the run renders the root class as a subtype of
\* GameObject, health with the initializer 100 and every other property as
\* the base declaration, and exits with status 0 having printed those lines.
C9_EndToEnd ==
    (GameSchema /\ pc \in {"print", "exited"}) =>
        /\ error = <<>>
        /\ \E k \in DOMAIN lines :
              /\ lines[k].kind = "class" /\ lines[k].node = 1
              /\ lines[k].text = <<"public partial class ", "C1", " : ", "GameObject">>
        /\ \E k \in DOMAIN lines :
              /\ lines[k].kind = "property" /\ lines[k].name = "health"
              /\ lines[k].text = BasePropertyDefinition("health") \o <<" = ", "100", ";">>
        /\ \A i \in 3..Len(nodes) :
              \E k \in DOMAIN lines :
                  /\ lines[k].kind = "property" /\ lines[k].name = JsonName(i)
                  /\ lines[k].text = BasePropertyDefinition(JsonName(i))
        /\ \A k \in DOMAIN lines :
              lines[k].kind = "property" =>
                  (lines[k].name = "health" \/ lines[k].text = BasePropertyDefinition(lines[k].name))
        /\ pc = "exited" => (exitCode = 0 /\ stdout = lines /\ stderr = <<>>)

C9_Witness ==
    /\ GameSchema
    /\ pc = "exited"
    /\ Len(stdout) >= 3

\* the last merge unified a node built from a structured fragment that
\* declares a default with one built from a structured fragment that
\* declares none
DeclaredWithUndeclared ==
    /\ merged.ins # <<>>
    /\ \E a, b \in DOMAIN merged.ins :
          /\ merged.ins[a].built /\ merged.ins[a].declared
          /\ merged.ins[b].built /\ merged.ins[b].structured /\ ~merged.ins[b].declared

\* C10: such a merge raises no error, the default kind's combine is not
\* called with a value standing for "no default", and the merged node has no
\* default.
C10_UndeclaredContributesNothing ==
    DeclaredWithUndeclared =>
        /\ ~merged.threw
        /\ \A k \in DOMAIN merged.dvArgs : merged.dvArgs[k] # Undefined
        /\ merged.out # 0 => nodes[merged.out].propertyDefaults = <<>>

=============================================================================
